---- MODULE Spec2Model ----
(***************************************************************************)
(* State-machine model of the S3 static-site deployment plugin:            *)
(*   S3Uploader (src/src/s3-uploader.ts), StackInspector                   *)
(*   (src/src/stack-inspector.ts), CloudFrontInvalidator                   *)
(*   (src/src/cloudfront-invalidator.ts) and the deployment coordinator    *)
(*   S3SitesPlugin (src/src/index.ts).                                     *)
(* Strings that the code takes apart (paths, keys, ETags, version tokens)  *)
(* are sequences of one-character strings.                                 *)
(***************************************************************************)
EXTENDS Integers, Sequences, FiniteSets, TLC

\* ------------------------------------------------------------- bounds
\* the wall clock, in seconds, runs over 0..MaxClock
MaxClock == 1
\* Math.random() suffixes are drawn from 1..NRand
NRand == 2

\* ------------------------------------------------------------- values
Undefined == "undefined"
None == <<>>
Some(x) == <<x>>

QuoteCh == "\""
BackslashCh == "\\"
SlashCh == "/"

index_html == <<"i","n","d","e","x",".","h","t","m","l">>
app_js == <<"a","p","p",".","j","s">>
logo_png == <<"l","o","g","o",".","p","n","g">>
old_txt == <<"o","l","d",".","t","x","t">>
assets == <<"a","s","s","e","t","s">>

\* file contents (bytes)
BytesA == <<7>>
BytesB == <<8, 9>>
OtherBytes(b) == IF b = BytesA THEN BytesB ELSE BytesA

Buckets == {"b1", "b2"}

EmptyFn == [x \in {} |-> x]

\* ---------------------------------------------------- the local disk
\* A directory listing in the order the file system yields it; a file is
\* its path segments below distPath and its bytes.
File(segs, bytes) == [segs |-> segs, content |-> bytes]

DirEmpty == <<>>
DirSite == << File(<<index_html>>, BytesA), File(<<app_js>>, BytesB),
              File(<<logo_png>>, BytesA) >>
DirNested == << File(<<index_html>>, BytesA), File(<<assets, app_js>>, BytesB) >>
DirIndex == << File(<<index_html>>, BytesA) >>
LocalDirs == {DirEmpty, DirSite, DirNested}

\* path.join / glob's relative paths use the platform separator
RECURSIVE Join(_, _)
Join(segs, s) ==
  IF Len(segs) = 0 THEN <<>>
  ELSE IF Len(segs) = 1 THEN segs[1]
  ELSE segs[1] \o <<s>> \o Join(Tail(segs), s)

\* ------------------------------------------------------ pure helpers
\* crypto.createHash('md5').update(bytes).digest('hex'): a digest that
\* tells the modelled contents apart
MD5(bytes) == IF bytes = BytesA THEN <<"0","c">> ELSE <<"f","1">>

\* s.replace(/"/g, '')
IsNotQuote(c) == c # QuoteCh
StripQuotes(s) == SelectSeq(s, IsNotQuote)

\* the ETag S3 stores for an object written by a single PutObject
S3ETagOf(bytes) == <<QuoteCh>> \o MD5(bytes) \o <<QuoteCh>>

\* file.replace(/\\/g, '/')
NormalizeSeparators_Kept(file) == file
NormalizeSeparators(file) ==
  [i \in 1..Len(file) |-> IF file[i] = BackslashCh THEN SlashCh ELSE file[i]]

\* generateVersion(): `v${timestamp to the second}-${random}`
GenerateVersion(now, rnd) == <<"v", ToString(now), "-", ToString(rnd)>>

\* HEAD responses: the object's ETag header (optional), or an error
HeadOk(etagOpt) == [kind |-> "ok", ETag |-> etagOpt]
HeadNotFound == [kind |-> "NotFound", ETag |-> None]
HeadError == [kind |-> "error", ETag |-> None]

\* fileNeedsUpload: the decision taken on the HEAD response
FileNeedsUpload_NoStrip(resp, localETag) ==
  IF resp.kind = "ok" THEN resp.ETag # Some(localETag) ELSE TRUE
FileNeedsUpload_Always(resp, localETag) == TRUE
FileNeedsUpload(resp, localETag) ==
  IF resp.kind = "ok"
  THEN LET s3ETag == IF resp.ETag = None THEN None
                     ELSE Some(StripQuotes(resp.ETag[1]))
       IN s3ETag # Some(localETag)
  ELSE TRUE

RECURSIVE SumSizes_Uploaded(_)
SumSizes_Uploaded(infos) ==
  IF Len(infos) = 0 THEN 0
  ELSE (IF infos[1].needsUpload THEN infos[1].size ELSE 0)
       + SumSizes_Uploaded(Tail(infos))

\* uploadInfo.reduce((sum, file) => sum + file.size, 0); the sum is taken
\* by halves to keep the evaluation shallow on long lists
SumSizes(infos) ==
  LET RECURSIVE Sum(_, _)
      Sum(lo, hi) ==
        IF lo > hi THEN 0
        ELSE IF lo = hi THEN infos[lo].size
        ELSE Sum(lo, (lo + hi) \div 2) + Sum((lo + hi) \div 2 + 1, hi)
  IN Sum(1, Len(infos))

NeedsUploadOf_All(info) == TRUE
NeedsUploadOf(info) == info.needsUpload


\* ------------------------------------------------------------- state
\* The duration fields of results and events (Date.now() differences) are
\* left out: nothing below depends on them.
VARIABLES
  sep,           \* the platform's path separator
  distKind,      \* what distPath is on disk: "dir", "missing" or "notdir"
  localFiles,    \* the directory listing below distPath
  remote,        \* the object store: <<bucket, key>> -> ETag header (optional)
  clock,         \* new Date(), in seconds
  s3Client,      \* S3Uploader.s3Client: "null" or the client's region
  upc,           \* where uploadSite stands
  uargs,         \* uploadSite's arguments (bucketName and options)
  files,         \* result of scanFiles
  uploadInfo,    \* prepareUploads' uploadInfo, also its loop position
  filesToUpload, \* uploadInfo filtered by needsUpload
  uploadedFiles, \* uploadSite's counter, also the position of its upload loop
  uresult,       \* the S3DeploymentResult uploadSite returned
  events,        \* what was emitted on the event bus during the call
  dryRunLog,     \* keys listed on the console by a dry run
  headLog,       \* HeadObject requests sent during the call, with their answers
  putLog,        \* PutObject requests sent during the call
  raised,        \* which step raised into uploadSite's catch ("none" if none)
  dirAtCall,     \* the disk and the bucket as they were when the call started
  prev,          \* the previous invocation: arguments, disk, result
  config,        \* S3SitesPlugin.config
  dpc,           \* where deploySite stands
  dsite,         \* deploySite's site argument
  dopts,         \* deploySite's options argument
  inspection,    \* the StackInspectionResult inspectStack returned
  dreq,          \* the resolved S3SiteRequirements (optional)
  dresult,       \* the S3DeploymentResult deploySite returned
  derror,        \* the error deploySite threw (Undefined if none)
  describeLog,   \* DescribeStacks requests sent
  cloudFrontClient, \* CloudFrontInvalidator.cloudFrontClient
  ipc,           \* where invalidate stands
  iargs,         \* invalidate's arguments
  createdId,     \* the id createInvalidation returned
  check,         \* waitForInvalidation's loop counter
  polls,         \* GetInvalidation requests sent
  pollEvent,     \* the progress event the latest poll emitted (optional)
  sleeps,        \* the 10-second waits that have ended since the latest poll
  stopAsked,     \* the surrounding process has asked the wait to stop
  recentPolls,   \* the answers to the latest two polls, oldest first
  iresult,       \* the InvalidationResult invalidate returned
  createLog      \* CreateInvalidation requests sent

envVars == << sep, distKind, localFiles, remote, clock >>
\* what entering uploadSite sets
enterVars == << s3Client, upc, uargs, files, uploadInfo, filesToUpload,
                uploadedFiles, uresult, raised, dirAtCall >>
logVars == << dryRunLog, headLog, putLog >>
runVars == << enterVars, events, logVars, prev >>
deployVars == << config, dpc, dsite, dopts, inspection, dreq, dresult, derror,
                 describeLog >>
invVars == << cloudFrontClient, ipc, iargs, createdId, check, polls, pollEvent,
              sleeps, stopAsked, recentPolls, iresult, createLog >>

vars == << envVars, runVars, deployVars, invVars >>

Rands == 1..NRand
\* the clock never runs backwards; a read sees the time that has passed
Later(t) == t..MaxClock

Strategies == {"direct", "versioned"}

NoArgs == [bucketName |-> "none", site |-> "none", strategy |-> "direct",
           dryRun |-> FALSE, region |-> Undefined]
NoResult == [success |-> FALSE, uploadedFiles |-> 0, totalSize |-> 0,
             version |-> None, error |-> "no result"]
NoDisk == [kind |-> "none", listing |-> <<>>, remote |-> EmptyFn]
NoPrev == [valid |-> FALSE, args |-> NoArgs, disk |-> NoDisk, result |-> NoResult]

\* ETag headers the bucket may hold before the first deployment: the hash
\* of either content, or none
InitETags == {Some(S3ETagOf(BytesA)), Some(S3ETagOf(BytesB)), None}

Obj(bucket, key, etagOpt) == (<<bucket, key>> :> etagOpt)

\* bucket b1 holds an object no local file corresponds to and possibly an
\* index.html; b2 is empty
InitialRemotes ==
  { Obj("b1", old_txt, Some(S3ETagOf(BytesB))) }
  \cup { Obj("b1", old_txt, Some(S3ETagOf(BytesB))) @@ Obj("b1", index_html, e) :
         e \in InitETags }

\* ---- the plugin's configuration and deploySite's arguments
\* S3SiteConfig: cloudFront is optional
CloudFront(enable, paths, wait) ==
  [enableInvalidation |-> enable, invalidationPaths |-> paths,
   waitForInvalidation |-> wait]
Config(enableRemote, strategy, cf) ==
  [enableRemoteDeployment |-> enableRemote, deploymentStrategy |-> strategy,
   cloudFront |-> cf]
\* private config: S3SiteConfig = {}
DefaultConfig == Config(FALSE, Undefined, None)

Site(stack, bucket, dist) ==
  [name |-> "site1", stackName |-> stack, bucketName |-> bucket,
   distributionId |-> dist]
NoSite == Site(Undefined, Undefined, Undefined)
NoOptions == [dryRun |-> FALSE, region |-> Undefined]

NoRequirements ==
  [stackName |-> Undefined, region |-> Undefined, outputs |-> EmptyFn,
   status |-> Undefined, readyForDeployment |-> FALSE]
NoInspection ==
  [success |-> FALSE, requirements |-> NoRequirements,
   error |-> << "no result" >>, recommendations |-> <<>>]
NoDeployResult ==
  [success |-> FALSE, uploadedFiles |-> 0, totalSize |-> 0, version |-> None,
   error |-> "no result", invalidationId |-> Undefined]
NoInvArgs ==
  [distributionId |-> Undefined, paths |-> <<>>, site |-> "none",
   region |-> Undefined, waitForCompletion |-> FALSE,
   maxWaitTime |-> None]
NoInvResult ==
  [invalidationId |-> Undefined, status |-> "none", success |-> FALSE,
   error |-> "no result"]

InitRun ==
  /\ s3Client = "null"
  /\ upc = "idle"
  /\ uargs = NoArgs
  /\ files = <<>>
  /\ uploadInfo = <<>>
  /\ filesToUpload = <<>>
  /\ uploadedFiles = 0
  /\ uresult = NoResult
  /\ events = <<>>
  /\ dryRunLog = <<>>
  /\ headLog = <<>>
  /\ putLog = <<>>
  /\ raised = "none"
  /\ dirAtCall = NoDisk
  /\ prev = NoPrev

\* the plugin after initialize(cfg): no deployment has been asked for
InitPlugin(cfg) ==
  /\ config = cfg
  /\ dpc = "idle"
  /\ dsite = NoSite
  /\ dopts = NoOptions
  /\ inspection = NoInspection
  /\ dreq = None
  /\ dresult = NoDeployResult
  /\ derror = Undefined
  /\ describeLog = <<>>
  /\ cloudFrontClient = "null"
  /\ ipc = "idle"
  /\ iargs = NoInvArgs
  /\ createdId = Undefined
  /\ check = 0
  /\ polls = 0
  /\ pollEvent = None
  /\ sleeps = 0
  /\ stopAsked = FALSE
  /\ recentPolls = <<>>
  /\ iresult = NoInvResult
  /\ createLog = <<>>

Init ==
  /\ sep \in {SlashCh, BackslashCh}
  /\ distKind \in {"dir", "missing", "notdir"}
  /\ localFiles \in (IF distKind = "dir" THEN LocalDirs ELSE {<<>>})
  /\ remote \in InitialRemotes
  /\ clock = 0
  /\ InitRun
  /\ InitPlugin(DefaultConfig)

\* ------------------------------------------------------- S3Uploader
\* initializeS3Client(region, profile)
InitializeS3Client(region) == IF region = Undefined THEN "us-east-1" ELSE region

\* glob('**/*', {cwd: distPath, nodir: true, dot: true}): the files below
\* distPath, relative, with the platform separator; nothing when distPath
\* is no directory
ScanResult ==
  IF distKind = "dir"
  THEN [i \in 1..Len(localFiles) |-> Join(localFiles[i].segs, sep)]
  ELSE <<>>

\* the local file a scanned relative path names
LocalFileAt(file) ==
  CHOOSE f \in {localFiles[i] : i \in 1..Len(localFiles)} : Join(f.segs, sep) = file

\* String.prototype.toLowerCase()
ToLowerCase(str) ==
  LET Pairs == { <<"A","a">>, <<"B","b">>, <<"C","c">>, <<"D","d">>, <<"E","e">>, <<"F","f">>,
              <<"G","g">>, <<"H","h">>, <<"I","i">>, <<"J","j">>, <<"K","k">>, <<"L","l">>,
              <<"M","m">>, <<"N","n">>, <<"O","o">>, <<"P","p">>, <<"Q","q">>, <<"R","r">>,
              <<"S","s">>, <<"T","t">>, <<"U","u">>, <<"V","v">>, <<"W","w">>, <<"X","x">>,
              <<"Y","y">>, <<"Z","z">> }
      Lower(c) == IF \E q \in Pairs : q[1] = c
                  THEN (CHOOSE q \in Pairs : q[1] = c)[2] ELSE c
  IN [i \in 1..Len(str) |-> Lower(str[i])]

\* path.basename(p): what follows the last separator
Basename(p) ==
  LET cuts == { i \in 1..Len(p) : p[i] \in {SlashCh, sep} }
      last == IF cuts = {} THEN 0 ELSE CHOOSE i \in cuts : \A j \in cuts : j <= i
  IN SubSeq(p, last + 1, Len(p))

\* path.extname(p): from the last dot of the base name to its end; empty
\* when there is no dot or the only dot starts the name
Extname(p) ==
  LET base == Basename(p)
      dots == { i \in 1..Len(base) : base[i] = "." }
      last == IF dots = {} THEN 0 ELSE CHOOSE i \in dots : \A j \in dots : j <= i
  IN IF last <= 1 \/ base = << ".", "." >> THEN <<>>
     ELSE SubSeq(base, last, Len(base))

\* the contentTypes table of getContentType
ContentTypes ==
  { << <<".","h","t","m","l">>, "text/html" >>,
    << <<".","c","s","s">>, "text/css" >>,
    << <<".","j","s">>, "application/javascript" >>,
    << <<".","j","s","o","n">>, "application/json" >>,
    << <<".","p","n","g">>, "image/png" >>,
    << <<".","j","p","g">>, "image/jpeg" >>,
    << <<".","j","p","e","g">>, "image/jpeg" >>,
    << <<".","g","i","f">>, "image/gif" >>,
    << <<".","s","v","g">>, "image/svg+xml" >>,
    << <<".","i","c","o">>, "image/x-icon" >>,
    << <<".","w","o","f","f">>, "font/woff" >>,
    << <<".","w","o","f","f","2">>, "font/woff2" >>,
    << <<".","t","t","f">>, "font/ttf" >>,
    << <<".","e","o","t">>, "application/vnd.ms-fontobject" >>,
    << <<".","x","m","l">>, "application/xml" >>,
    << <<".","t","x","t">>, "text/plain" >>,
    << <<".","p","d","f">>, "application/pdf" >>,
    << <<".","z","i","p">>, "application/zip" >>,
    << <<".","m","p","4">>, "video/mp4" >>,
    << <<".","w","e","b","m">>, "video/webm" >>,
    << <<".","m","p","3">>, "audio/mpeg" >>,
    << <<".","w","a","v">>, "audio/wav" >> }

GetContentType_CaseSensitive(fileName) ==
  LET ext == Extname(fileName)
  IN IF \E e \in ContentTypes : e[1] = ext
     THEN (CHOOSE e \in ContentTypes : e[1] = ext)[2]
     ELSE "application/octet-stream"

\* getContentType(fileName): contentTypes[ext] || 'application/octet-stream'
GetContentType(fileName) ==
  LET ext == ToLowerCase(Extname(fileName))
  IN IF \E e \in ContentTypes : e[1] = ext
     THEN (CHOOSE e \in ContentTypes : e[1] = ext)[2]
     ELSE "application/octet-stream"

\* the staticAssets list of getCacheControl
StaticAssets ==
  { <<".","c","s","s">>, <<".","j","s">>, <<".","p","n","g">>,
    <<".","j","p","g">>, <<".","j","p","e","g">>, <<".","g","i","f">>,
    <<".","s","v","g">>, <<".","i","c","o">>, <<".","w","o","f","f">>,
    <<".","w","o","f","f","2">>, <<".","t","t","f">>, <<".","e","o","t">> }

GetCacheControl_CaseSensitive(s3Key) ==
  LET ext == Extname(Basename(s3Key))
  IN IF ext \in StaticAssets THEN "public, max-age=31536000, immutable"
     ELSE IF ext = <<".","h","t","m","l">> \/ Basename(s3Key) = index_html
     THEN "public, max-age=3600, must-revalidate"
     ELSE "public, max-age=86400"

\* getCacheControl(s3Key)
GetCacheControl(s3Key) ==
  LET fileName == Basename(s3Key)
      ext == ToLowerCase(Extname(fileName))
  IN IF ext \in StaticAssets THEN "public, max-age=31536000, immutable"
     ELSE IF ext = <<".","h","t","m","l">> \/ fileName = index_html
     THEN "public, max-age=3600, must-revalidate"
     ELSE "public, max-age=86400"

\* the S3 key of a file: separators normalised, a version generated for it
\* under the versioned strategy
S3KeyOf(file, strategy, now, rnd) ==
  IF strategy = "versioned"
  THEN GenerateVersion(now, rnd) \o <<SlashCh>> \o NormalizeSeparators(file)
  ELSE NormalizeSeparators(file)

\* what a HEAD on <<bucket, key>> can answer: the stored object or 404, or
\* any other failure (permission, network)
HeadAnswers(bucket, key) ==
  { IF <<bucket, key>> \in DOMAIN remote THEN HeadOk(remote[<<bucket, key>>])
    ELSE HeadNotFound,
    HeadError }

\* the catch block of uploadSite
FailureResult_Partial(msg) ==
  [success |-> FALSE, uploadedFiles |-> uploadedFiles,
   totalSize |-> SumSizes(uploadInfo), version |-> None, error |-> msg]
FailureResult(msg) ==
  [success |-> FALSE, uploadedFiles |-> 0, totalSize |-> 0,
   version |-> None, error |-> msg]

\* the return value of the try block
SuccessResult(count, infos, now, rnd) ==
  [success |-> TRUE, uploadedFiles |-> count, totalSize |-> SumSizes(infos),
   version |-> IF uargs.strategy = "versioned"
               THEN Some(GenerateVersion(now, rnd)) ELSE None,
   error |-> Undefined]

BeforeUploadEvent(infos) ==
  [type |-> "before:upload", site |-> uargs.site, bucketName |-> uargs.bucketName,
   fileCount |-> Len(infos), totalSize |-> SumSizes(infos)]

AfterUploadEvent(count, skipped) ==
  [type |-> "after:upload", site |-> uargs.site, bucketName |-> uargs.bucketName,
   uploadedFiles |-> count, skippedFiles |-> skipped]

RoundPercent_Floor(k, n) == (100 * k) \div n

\* Math.round((uploadedFiles / filesToUpload.length) * 100), n > 0
RoundPercent(k, n) == (200 * k + n) \div (2 * n)

ProgressEvent(count, total, key) ==
  [type |-> "progress", site |-> uargs.site, stage |-> "uploading",
   progress |-> RoundPercent(count, total), key |-> key]

\* if (options.dryRun)
IsDryRun_Ignored(options) == FALSE
IsDryRun(options) == options.dryRun

\* a rejected uploadFile leaves the upload loop for the catch block, which
\* returns
AfterUploadError_Continue == "upload"
AfterUploadError == "done"

\* the time and the random suffix a generateVersion() call may see
VersionTimes == IF uargs.strategy = "versioned" THEN Later(clock) ELSE {clock}
VersionRands == IF uargs.strategy = "versioned" THEN Rands ELSE {1}

\* uploadSite(distPath, bucketName, options), up to its first await:
\* the client is (re)initialised
EnterUploadSite(bucket, strategy, dryRun, region) ==
  /\ uargs' = [bucketName |-> bucket, site |-> "site1", strategy |-> strategy,
               dryRun |-> dryRun, region |-> region]
  /\ s3Client' = InitializeS3Client(region)
  /\ upc' = "scan"
  /\ files' = <<>>
  /\ uploadInfo' = <<>>
  /\ filesToUpload' = <<>>
  /\ uploadedFiles' = 0
  /\ uresult' = NoResult
  /\ raised' = "none"
  /\ dirAtCall' = [kind |-> distKind, listing |-> localFiles, remote |-> remote]

\* the first deployment
UploadSiteCall(bucket, strategy, dryRun) ==
  /\ upc = "idle"
  /\ dpc = "idle"
  /\ EnterUploadSite(bucket, strategy, dryRun, Undefined)
  /\ UNCHANGED << envVars, events, logVars, prev, deployVars, invVars >>

\* uploadSite called with options.region
UploadSiteInRegion(bucket, strategy, dryRun, region) ==
  /\ upc = "idle"
  /\ dpc = "idle"
  /\ EnterUploadSite(bucket, strategy, dryRun, region)
  /\ UNCHANGED << envVars, events, logVars, prev, deployVars, invVars >>

\* while this uploadSite is between two awaits, uploadSite is called for
\* another site on the same S3Uploader: its first statement replaces
\* this.s3Client; its requests go to its own bucket
OtherUploadSiteCall(region) ==
  /\ upc \in {"scan", "prepare", "upload"}
  /\ s3Client' = InitializeS3Client(region)
  /\ UNCHANGED << envVars, upc, uargs, files, uploadInfo, filesToUpload,
                  uploadedFiles, uresult, raised, dirAtCall, events, logVars,
                  prev, deployVars, invVars >>

\* the re-deployment: uploadSite is called again with the same bucket and
\* options after the first call has returned; the logs start afresh
UploadSiteAgain ==
  /\ upc = "done"
  /\ dpc = "idle"
  /\ ~prev.valid
  /\ EnterUploadSite(uargs.bucketName, uargs.strategy, uargs.dryRun,
                     uargs.region)
  /\ prev' = [valid |-> TRUE, args |-> uargs, disk |-> dirAtCall,
              result |-> uresult]
  /\ events' = <<>>
  /\ dryRunLog' = <<>>
  /\ headLog' = <<>>
  /\ putLog' = <<>>
  /\ UNCHANGED << envVars, deployVars, invVars >>

\* const files = await this.scanFiles(distPath)
ScanFiles ==
  /\ upc = "scan"
  /\ files' = ScanResult
  /\ upc' = "prepare"
  /\ UNCHANGED << envVars, s3Client, uargs, uploadInfo, filesToUpload,
                  uploadedFiles, uresult, events, dryRunLog, headLog, putLog,
                  raised, dirAtCall, prev >>
  /\ UNCHANGED << deployVars, invVars >>

\* for (const file of files) in prepareUploads has gone through every file
PrepareDone_Early == Len(uploadInfo) >= 1 \/ Len(files) = 0
PrepareDone == Len(uploadInfo) = Len(files)

\* one iteration of prepareUploads' loop: stat, key, ETag, HEAD, push
PrepareFile ==
  /\ upc = "prepare"
  /\ ~PrepareDone
  /\ LET file == files[Len(uploadInfo) + 1]
         bytes == LocalFileAt(file).content
     IN \E now \in VersionTimes, rnd \in VersionRands :
          LET key == S3KeyOf(file, uargs.strategy, now, rnd)
              etag == MD5(bytes)
          IN \E resp \in HeadAnswers(uargs.bucketName, key) :
               /\ clock' = now
               /\ headLog' = Append(headLog, [bucket |-> uargs.bucketName,
                                              key |-> key, resp |-> resp,
                                              client |-> s3Client])
               /\ uploadInfo' = Append(uploadInfo,
                    [file |-> file, s3Key |-> key, size |-> Len(bytes),
                     contentType |-> GetContentType(file), etag |-> etag,
                     needsUpload |-> FileNeedsUpload(resp, etag)])
  /\ UNCHANGED << sep, distKind, localFiles, remote, s3Client, upc, uargs,
                  files, filesToUpload, uploadedFiles, uresult, events,
                  dryRunLog, putLog, raised, dirAtCall, prev >>
  /\ UNCHANGED << deployVars, invVars >>

\* fs.promises.stat or readFile rejects in prepareUploads: the error
\* reaches uploadSite's catch
PrepareFails ==
  /\ upc = "prepare"
  /\ ~PrepareDone
  /\ uresult' = FailureResult("EIO")
  /\ raised' = "prepare"
  /\ upc' = "done"
  /\ UNCHANGED << envVars, s3Client, uargs, files, uploadInfo, filesToUpload,
                  uploadedFiles, events, dryRunLog, headLog, putLog,
                  dirAtCall, prev >>
  /\ UNCHANGED << deployVars, invVars >>

KeysOf(infos) == [i \in 1..Len(infos) |-> infos[i].s3Key]

\* prepareUploads has returned: before:upload is emitted and the files are
\* filtered; a dry run, or a run with nothing to upload, runs on to its return
StartUploads ==
  /\ upc = "prepare"
  /\ PrepareDone
  /\ LET toUpload == SelectSeq(uploadInfo, NeedsUploadOf)
         skipped == Len(uploadInfo) - Len(toUpload)
     IN /\ filesToUpload' = toUpload
        /\ IF IsDryRun(uargs) \/ Len(toUpload) = 0
           THEN \E now \in VersionTimes, rnd \in VersionRands :
                  /\ clock' = now
                  /\ dryRunLog' = IF IsDryRun(uargs) THEN KeysOf(toUpload)
                                  ELSE dryRunLog
                  /\ events' = events \o << BeforeUploadEvent(uploadInfo),
                                            AfterUploadEvent(0, skipped) >>
                  /\ uresult' = SuccessResult(0, uploadInfo, now, rnd)
                  /\ upc' = "done"
           ELSE /\ events' = Append(events, BeforeUploadEvent(uploadInfo))
                /\ upc' = "upload"
                /\ UNCHANGED << clock, dryRunLog, uresult >>
  /\ UNCHANGED << sep, distKind, localFiles, remote, s3Client, uargs,
                  files, uploadInfo, uploadedFiles, headLog, putLog, raised,
                  dirAtCall, prev >>
  /\ UNCHANGED << deployVars, invVars >>

\* uploadFile: the PutObject request for a file
PutRequest(info, body, ok) ==
  [bucket |-> uargs.bucketName, key |-> info.s3Key, body |-> body,
   contentType |-> info.contentType,
   cacheControl |-> GetCacheControl(info.s3Key),
   client |-> s3Client, ok |-> ok]

\* one iteration of the upload loop: uploadFile succeeds, the counter is
\* raised and progress is emitted; after the last file the run returns
UploadFile ==
  /\ upc = "upload"
  /\ uploadedFiles < Len(filesToUpload)
  /\ LET info == filesToUpload[uploadedFiles + 1]
         body == LocalFileAt(info.file).content
         count == uploadedFiles + 1
         total == Len(filesToUpload)
         progress == ProgressEvent(count, total, info.s3Key)
     IN /\ putLog' = Append(putLog, PutRequest(info, body, TRUE))
        /\ remote' = Obj(uargs.bucketName, info.s3Key, Some(S3ETagOf(body)))
                       @@ remote
        /\ uploadedFiles' = count
        /\ IF count = total
           THEN \E now \in VersionTimes, rnd \in VersionRands :
                  /\ clock' = now
                  /\ events' = events \o << progress,
                        AfterUploadEvent(count, Len(uploadInfo) - total) >>
                  /\ uresult' = SuccessResult(count, uploadInfo, now, rnd)
                  /\ upc' = "done"
           ELSE /\ events' = Append(events, progress)
                /\ UNCHANGED << clock, uresult, upc >>
  /\ UNCHANGED << sep, distKind, localFiles, s3Client, uargs, files,
                  uploadInfo, filesToUpload, dryRunLog, headLog, raised,
                  dirAtCall, prev >>
  /\ UNCHANGED << deployVars, invVars >>

\* uploadFile rejects: readFile fails (no request is sent) or the PUT is
\* refused; the error reaches uploadSite's catch
UploadFails ==
  /\ upc = "upload"
  /\ uploadedFiles < Len(filesToUpload)
  /\ LET info == filesToUpload[uploadedFiles + 1]
         body == LocalFileAt(info.file).content
     IN \E sent \in BOOLEAN :
          /\ putLog' = IF sent THEN Append(putLog, PutRequest(info, body, FALSE))
                       ELSE putLog
          /\ uresult' = FailureResult(IF sent THEN "PutFailed" ELSE "EIO")
  /\ raised' = "upload"
  /\ upc' = AfterUploadError
  /\ UNCHANGED << envVars, s3Client, uargs, files, uploadInfo, filesToUpload,
                  uploadedFiles, events, dryRunLog, headLog, dirAtCall,
                  prev >>
  /\ UNCHANGED << deployVars, invVars >>

\* between two deployments the site is rebuilt: a file's bytes change
LocalEdit ==
  /\ upc = "done"
  /\ ~prev.valid
  /\ \E i \in 1..Len(localFiles) :
       localFiles' = [localFiles EXCEPT ![i].content = OtherBytes(@)]
  /\ UNCHANGED << sep, distKind, remote, clock, runVars, deployVars, invVars >>

\* --------------------------------------------------- StackInspector
\* falsy strings of the code: undefined and ''
Truthy(v) == v # Undefined /\ v # ""

\* a CloudFormation stack as DescribeStacks returns it
Out(key, value) == [OutputKey |-> key, OutputValue |-> value]
Stack(name, status, outs) ==
  [StackName |-> name, StackStatus |-> status, Outputs |-> outs]

DescribeOk(stack) == [kind |-> "ok", stack |-> Some(stack)]
DescribeNoStacks == [kind |-> "ok", stack |-> None]
\* a rejected DescribeStacks: the name of the error and its message, as the
\* phrases the code looks for in it among its other words
DescribeDoesNotExist ==
  [kind |-> "ValidationError", message |-> << "Stack", "does not exist" >>,
   stack |-> None]
DescribeDenied ==
  [kind |-> "AccessDenied", message |-> << "AccessDenied", "not authorized" >>,
   stack |-> None]

\* extractOutputs: the outputs that have a key and a value; a later output
\* replaces an earlier one of the same key
RECURSIVE ExtractOutputs(_)
ExtractOutputs(outs) ==
  IF Len(outs) = 0 THEN EmptyFn
  ELSE LET o == outs[Len(outs)]
           rest == ExtractOutputs(SubSeq(outs, 1, Len(outs) - 1))
       IN IF Truthy(o.OutputKey) /\ Truthy(o.OutputValue)
          THEN (o.OutputKey :> o.OutputValue) @@ rest
          ELSE rest

\* isStackReady
ReadyStatuses == {"CREATE_COMPLETE", "UPDATE_COMPLETE"}
IsStackReady(stack) == stack.StackStatus \in ReadyStatuses

\* extractRequirements(stack, profileConfig)
ExtractRequirements(stack, region) ==
  [stackName |-> stack.StackName,
   region |-> IF Truthy(region) THEN region ELSE "us-east-1",
   outputs |-> ExtractOutputs(stack.Outputs),
   status |-> stack.StackStatus,
   readyForDeployment |-> IsStackReady(stack)]

\* generateErrorRecommendations(error): the list picked by the first phrase
\* found in the message
GenerateErrorRecommendations_None(errorMessage) == <<>>
GenerateErrorRecommendations(errorMessage) ==
  LET Includes(p) == \E i \in 1..Len(errorMessage) : errorMessage[i] = p
  IN IF Includes("AccessDenied") \/ Includes("UnauthorizedOperation")
     THEN << "Check that your AWS credentials have CloudFormation:DescribeStacks permission",
             "Verify the correct AWS profile is being used",
             "Ensure the stack exists in the correct AWS account" >>
     ELSE IF Includes("ValidationError")
     THEN << "Verify the stack name is correct and exists",
             "Check that you are querying the correct AWS region",
             "Ensure the stack is not in a DELETE_COMPLETE state" >>
     ELSE IF Includes("does not exist")
     THEN << "Create the stack first using CDK or CloudFormation",
             "Verify you are connected to the correct AWS account",
             "Check the correct region is specified" >>
     ELSE << "Check your internet connection",
             "Verify AWS credentials are configured",
             "Try again with a different AWS profile or region" >>

\* inspectStack: the result built from the answer to DescribeStacks;
\* getStackDetails turns a ValidationError that says 'does not exist' into
\* no stack, every other error reaches the catch block
InspectStack(answer, region) ==
  IF answer.kind = "ok" /\ answer.stack # None
  THEN [success |-> TRUE,
        requirements |-> ExtractRequirements(answer.stack[1], region),
        error |-> <<>>, recommendations |-> <<>>]
  ELSE IF \/ answer.kind = "ok"
          \/ /\ answer.kind = "ValidationError"
             /\ \E i \in 1..Len(answer.message) :
                  answer.message[i] = "does not exist"
  THEN [success |-> FALSE, requirements |-> NoRequirements,
        error |-> << "Stack", "not found or not accessible" >>,
        recommendations |->
          << "Verify the stack name is correct",
             "Check that the stack exists in the specified region",
             "Ensure your AWS credentials have permission to describe the stack" >>]
  ELSE [success |-> FALSE, requirements |-> NoRequirements,
        error |-> answer.message,
        recommendations |-> GenerateErrorRecommendations(answer.message)]

\* ---------------------------------------------------- S3SitesPlugin
BucketOutputNames ==
  <<"BucketName", "S3BucketName", "WebsiteBucket", "StaticSiteBucket", "Bucket">>
DistributionOutputNames ==
  <<"DistributionId", "CloudFrontDistributionId", "CDNDistributionId",
    "Distribution">>

\* findStackOutput(outputs, names)
RECURSIVE FindStackOutput_Last(_, _)
FindStackOutput_Last(outputs, names) ==
  IF Len(names) = 0 THEN Undefined
  ELSE LET name == names[Len(names)]
       IN IF name \in DOMAIN outputs /\ Truthy(outputs[name])
          THEN outputs[name]
          ELSE FindStackOutput_Last(outputs, SubSeq(names, 1, Len(names) - 1))
RECURSIVE FindStackOutput(_, _)
FindStackOutput(outputs, names) ==
  IF Len(names) = 0 THEN Undefined
  ELSE IF names[1] \in DOMAIN outputs /\ Truthy(outputs[names[1]])
       THEN outputs[names[1]]
       ELSE FindStackOutput(outputs, Tail(names))

\* extractSiteRequirements(stackRequirements): the requirements, or the
\* error it throws
ExtractSiteRequirements(stackRequirements) ==
  LET outputs == stackRequirements.outputs
      bucketName == FindStackOutput(outputs, BucketOutputNames)
      distributionId == FindStackOutput(outputs, DistributionOutputNames)
  IN IF ~Truthy(bucketName)
     THEN [thrown |-> "BucketOutputNotFound", req |-> None]
     ELSE [thrown |-> Undefined,
           req |-> Some([stackName |-> stackRequirements.stackName,
                         region |-> stackRequirements.region,
                         bucketName |-> bucketName,
                         distributionId |-> distributionId,
                         outputs |-> outputs,
                         readyForDeployment |->
                           stackRequirements.readyForDeployment])]

\* the siteRequirements deploySiteLocal builds
LocalRequirements(site, options) ==
  [stackName |-> IF Truthy(site.stackName) THEN site.stackName ELSE "direct",
   region |-> IF Truthy(options.region) THEN options.region ELSE "us-east-1",
   bucketName |-> site.bucketName,
   distributionId |-> site.distributionId,
   outputs |-> EmptyFn,
   readyForDeployment |-> TRUE]

\* deploySite's dispatch: remote when enabled and the site names a stack
IsRemote_StackOnly(site) == Truthy(site.stackName)
IsRemote(site) == config.enableRemoteDeployment /\ Truthy(site.stackName)

\* this.config.deploymentStrategy || 'direct'
ConfiguredStrategy ==
  IF Truthy(config.deploymentStrategy) THEN config.deploymentStrategy
  ELSE "direct"

\* fs.existsSync(distPath)
ExistsSync == distKind # "missing"

BeforeSiteDeployEvent(site) == [type |-> "before:site-deploy", site |-> site.name]
AfterSiteDeployEvent(site, success, result) ==
  [type |-> "after:site-deploy", site |-> site.name, success |-> success,
   result |-> result]

\* the result deploySiteRemote's catch block puts in its event
CaughtResult(msg) ==
  [success |-> FALSE, uploadedFiles |-> 0, totalSize |-> 0, version |-> None,
   error |-> msg, invalidationId |-> Undefined]

\* {...deploymentResult, duration}, with the invalidationId set on it
DeploymentResult_Verdict(res, invalidationId) ==
  [success |-> res.success /\ invalidationId # "",
   uploadedFiles |-> res.uploadedFiles,
   totalSize |-> res.totalSize, version |-> res.version, error |-> res.error,
   invalidationId |-> invalidationId]
DeploymentResult(res, invalidationId) ==
  [success |-> res.success, uploadedFiles |-> res.uploadedFiles,
   totalSize |-> res.totalSize, version |-> res.version, error |-> res.error,
   invalidationId |-> invalidationId]

\* deploySiteToS3: the existence check, then the call of uploadSite
DeploySiteToS3(req, options) ==
  IF ~ExistsSync
  THEN /\ dpc' = "thrown"
       /\ derror' = "DistDirectoryNotFound"
       /\ UNCHANGED enterVars
  ELSE /\ EnterUploadSite(req.bucketName, ConfiguredStrategy, options.dryRun,
                          req.region)
       /\ dpc' = "upload"
       /\ UNCHANGED derror

\* deploySite -> deploySiteLocal
DeploySiteLocal(site, options) ==
  /\ dpc = "idle"
  /\ upc = "idle"
  /\ ~IsRemote(site)
  /\ dsite' = site
  /\ dopts' = options
  /\ IF ~Truthy(site.bucketName)
     THEN /\ dpc' = "thrown"
          /\ derror' = "BucketNotConfigured"
          /\ UNCHANGED << dreq, enterVars >>
     ELSE /\ dreq' = Some(LocalRequirements(site, options))
          /\ DeploySiteToS3(LocalRequirements(site, options), options)
  /\ UNCHANGED << envVars, events, logVars, prev, config, inspection, dresult,
                  describeLog, invVars >>

\* deploySite -> deploySiteRemote, up to the DescribeStacks request
DeploySiteRemote(site, options) ==
  /\ dpc = "idle"
  /\ upc = "idle"
  /\ IsRemote(site)
  /\ dsite' = site
  /\ dopts' = options
  /\ events' = Append(events, BeforeSiteDeployEvent(site))
  /\ describeLog' = Append(describeLog, site.stackName)
  /\ dpc' = "inspect"
  /\ UNCHANGED << envVars, enterVars, logVars, prev, config, inspection, dreq,
                  dresult, derror, invVars >>

\* the stacks DescribeStacks may describe
StackStatuses ==
  {"CREATE_COMPLETE", "UPDATE_COMPLETE", "ROLLBACK_COMPLETE",
   "UPDATE_IN_PROGRESS"}
OutsNone == <<>>
OutsSite == << Out("WebsiteBucket", "b1"), Out("DistributionId", "E1") >>
OutsMany == << Out("Bucket", "b2"), Out("BucketName", "b1"),
               Out("Distribution", "E2"), Out("CDNDistributionId", "E1") >>
OutsEmptyValue == << Out("BucketName", ""), Out("StaticSiteBucket", "b2") >>
OutsNoBucket == << Out("DistributionId", "E1") >>
StackOutputs == {OutsNone, OutsSite, OutsMany, OutsEmptyValue, OutsNoBucket}

DescribeAnswers(stackName) ==
  { DescribeOk(Stack(stackName, st, outs)) :
      st \in StackStatuses, outs \in StackOutputs }
  \cup {DescribeNoStacks, DescribeDoesNotExist, DescribeDenied}
  \cup { [kind |-> "AccessDenied", stack |-> None,
          message |-> << "User", "is not authorized to perform" >>],
         [kind |-> "UnauthorizedOperation", stack |-> None,
          message |-> << "UnauthorizedOperation" >>],
         [kind |-> "ValidationError", stack |-> None,
          message |-> << "ValidationError", "Stack name", "is invalid" >>],
         [kind |-> "ResourceNotFound", stack |-> None,
          message |-> << "Role", "does not exist" >>],
         [kind |-> "TimeoutError", stack |-> None,
          message |-> << "connect", "ETIMEDOUT" >>] }

\* inspectStack has returned: the rest of deploySiteRemote's try block up to
\* the call of uploadSite, and its catch block
InspectStackReturns ==
  /\ dpc = "inspect"
  /\ \E answer \in DescribeAnswers(dsite.stackName) :
       LET inspectionResult == InspectStack(answer, dopts.region)
           extracted == ExtractSiteRequirements(inspectionResult.requirements)
       IN /\ inspection' = inspectionResult
          /\ IF ~inspectionResult.success
             THEN /\ dpc' = "thrown"
                  /\ derror' = "StackInspectionFailed"
                  /\ UNCHANGED << dreq, enterVars >>
             ELSE IF Truthy(extracted.thrown)
             THEN /\ dpc' = "thrown"
                  /\ derror' = extracted.thrown
                  /\ UNCHANGED << dreq, enterVars >>
             ELSE /\ dreq' = extracted.req
                  /\ IF ~extracted.req[1].readyForDeployment
                     THEN /\ dpc' = "thrown"
                          /\ derror' = "StackNotReady"
                          /\ UNCHANGED enterVars
                     ELSE DeploySiteToS3(extracted.req[1], dopts)
  /\ events' = IF dpc' = "thrown"
               THEN Append(events,
                      AfterSiteDeployEvent(dsite, FALSE, CaughtResult(derror')))
               ELSE events
  /\ UNCHANGED << envVars, logVars, prev, config, dsite, dopts, dresult,
                  describeLog, invVars >>

\* --------------------------------------------- CloudFrontInvalidator
\* waitForInvalidation's schedule
DefaultMaxWaitTime == 300
CheckInterval == 10
\* const maxWaitTime = options.maxWaitTime || 300
MaxWaitTime(options) ==
  IF options.maxWaitTime = None \/ options.maxWaitTime[1] = 0
  THEN DefaultMaxWaitTime ELSE options.maxWaitTime[1]
\* Math.floor(maxWaitTime / checkInterval)
MaxChecks_OneLess(options) == MaxWaitTime(options) \div CheckInterval - 1
MaxChecks(options) == MaxWaitTime(options) \div CheckInterval

\* Math.round((check / maxChecks) * 100)
PollProgress(c, maxChecks) == RoundPercent(c, maxChecks)

BeforeInvalidationEvent(args) ==
  [type |-> "before:invalidation", site |-> args.site,
   distributionId |-> args.distributionId, paths |-> args.paths]
AfterInvalidationEvent(args, id, success) ==
  [type |-> "after:invalidation", site |-> args.site,
   distributionId |-> args.distributionId, invalidationId |-> id,
   success |-> success]
InvalidationProgressEvent(args, c) ==
  [type |-> "progress", site |-> args.site, stage |-> "invalidating",
   progress |-> PollProgress(c, MaxChecks(args)),
   elapsed |-> c * CheckInterval]

\* invalidate(distributionId, paths, options), up to the CreateInvalidation
\* request
EnterInvalidate(args) ==
  /\ iargs' = args
  /\ cloudFrontClient' = IF Truthy(args.region) THEN args.region ELSE "us-east-1"
  /\ events' = Append(events, BeforeInvalidationEvent(args))
  /\ ipc' = "create"
  /\ createdId' = Undefined
  /\ check' = 0
  /\ polls' = 0
  /\ pollEvent' = None
  /\ sleeps' = 0
  /\ stopAsked' = stopAsked
  /\ recentPolls' = <<>>
  /\ iresult' = NoInvResult

\* invalidate returns from its try block
InvalidateSucceeds(id, status) ==
  /\ events' = Append(events, AfterInvalidationEvent(iargs, id, TRUE))
  /\ iresult' = [invalidationId |-> id, status |-> status, success |-> TRUE,
                 error |-> Undefined]
  /\ ipc' = "done"

\* invalidate returns from its catch block
InvalidateFails_Rethrown(msg) ==
  /\ events' = events
  /\ iresult' = iresult
  /\ ipc' = "thrown"
InvalidateFails(msg) ==
  /\ events' = Append(events, AfterInvalidationEvent(iargs, "", FALSE))
  /\ iresult' = [invalidationId |-> "", status |-> "InProgress",
                 success |-> FALSE, error |-> msg]
  /\ ipc' = "done"

\* if (options.waitForCompletion)
WaitRequested_Always(options) == TRUE
WaitRequested(options) == options.waitForCompletion

\* what CloudFront answers to CreateInvalidation: an invalidation with its
\* id, a response without an id, or an error
CreateAnswers == {"I1", "", "error"}

\* generateCallerReference(): the time read from the clock and six characters
\* of Math.random(); two calls can read the same time and draw the same
\* characters
GenerateCallerReference(now, rnd) ==
  << "orcdkestrator-", ToString(now), "-", ToString(rnd) >>

\* createInvalidation returns or throws; without waitForCompletion (or with
\* no check to make) invalidate returns at once
InvalidateCreate ==
  /\ ipc = "create"
  /\ \E answer \in CreateAnswers, now \in Later(clock), rnd \in Rands :
       /\ clock' = now
       /\ createLog' = Append(createLog,
            [distributionId |-> iargs.distributionId, paths |-> iargs.paths,
             callerReference |-> GenerateCallerReference(now, rnd),
             client |-> cloudFrontClient, answer |-> answer])
       /\ IF answer = "error"
          THEN InvalidateFails("CreateFailed") /\ UNCHANGED << createdId, check >>
          ELSE IF ~Truthy(answer)
          THEN InvalidateFails("no ID returned") /\ UNCHANGED << createdId, check >>
          ELSE
            /\ createdId' = answer
            /\ IF WaitRequested(iargs) /\ MaxChecks(iargs) > 0
               THEN /\ ipc' = "poll"
                    /\ check' = 0
                    /\ UNCHANGED << events, iresult >>
               ELSE InvalidateSucceeds(answer, "InProgress") /\ UNCHANGED check
  /\ UNCHANGED << sep, distKind, localFiles, remote, enterVars, logVars, prev,
                  deployVars, cloudFrontClient, iargs, polls, pollEvent,
                  sleeps, stopAsked,
                  recentPolls >>

\* the loop goes to its next iteration, or ends when maxChecks is reached
NextCheck ==
  IF check + 1 < MaxChecks(iargs)
  THEN /\ check' = check + 1
       /\ ipc' = "poll"
       /\ UNCHANGED << events, iresult >>
  ELSE /\ check' = check + 1
       /\ InvalidateSucceeds(createdId, "InProgress")

PollAnswers == {"Completed", "InProgress", "error"}

\* the catch block inside the loop swallows the error of a poll
PollErrorAborts_Yes == TRUE
PollErrorAborts == FALSE

\* the latest two answers after one more
Recent(answers, answer) ==
  IF Len(answers) < 2 THEN Append(answers, answer)
  ELSE << answers[2], answer >>

\* one GetInvalidation request of waitForInvalidation and what follows it up
\* to the next await
PollInvalidation ==
  /\ ipc = "poll"
  /\ polls' = polls + 1
  /\ sleeps' = 0
  /\ \E answer \in PollAnswers :
       /\ recentPolls' = Recent(recentPolls, answer)
       /\ IF answer = "Completed"
          THEN /\ InvalidateSucceeds(createdId, "Completed")
               /\ pollEvent' = None
               /\ UNCHANGED check
          ELSE IF answer = "InProgress"
          THEN /\ pollEvent' = Some(InvalidationProgressEvent(iargs, check))
               /\ ipc' = "sleep"
               /\ UNCHANGED << check, events, iresult >>
          ELSE /\ pollEvent' = None
               /\ IF PollErrorAborts
                  THEN InvalidateFails("PollFailed") /\ UNCHANGED check
                  ELSE NextCheck
  /\ UNCHANGED << envVars, enterVars, logVars, prev, deployVars,
                  cloudFrontClient, iargs, createdId, stopAsked, createLog >>

\* await this.sleep(checkInterval * 1000) is over
SleepDone ==
  /\ ipc = "sleep"
  /\ sleeps' = sleeps + 1
  /\ NextCheck
  /\ UNCHANGED << envVars, enterVars, logVars, prev, deployVars,
                  cloudFrontClient, iargs, createdId, polls, pollEvent,
                  stopAsked, recentPolls, createLog >>

\* the surrounding process asks the running wait to stop; waitForInvalidation
\* and sleep take no signal and read none
AskStop ==
  /\ ipc \in {"poll", "sleep"}
  /\ ~stopAsked
  /\ stopAsked' = TRUE
  /\ UNCHANGED << envVars, runVars, deployVars, cloudFrontClient, ipc, iargs,
                  createdId, check, polls, pollEvent, sleeps, recentPolls,
                  iresult, createLog >>

\* invalidate called on its own, with the caller's options
InvalidateCall(distributionId, wait, maxWaitTime) ==
  /\ ipc = "idle"
  /\ dpc = "idle"
  /\ EnterInvalidate([distributionId |-> distributionId, paths |-> << "/*" >>,
                      site |-> "site1", region |-> Undefined,
                      waitForCompletion |-> wait, maxWaitTime |-> maxWaitTime])
  /\ UNCHANGED << envVars, enterVars, logVars, prev, deployVars, createLog >>

\* invalidate called once more after an earlier call has returned
MaxCreates == 2

InvalidateAgain(distributionId, wait, maxWaitTime) ==
  /\ ipc = "done"
  /\ dpc = "idle"
  /\ Len(createLog) < MaxCreates
  /\ EnterInvalidate([distributionId |-> distributionId, paths |-> << "/*" >>,
                      site |-> "site1", region |-> Undefined,
                      waitForCompletion |-> wait, maxWaitTime |-> maxWaitTime])
  /\ UNCHANGED << envVars, enterVars, logVars, prev, deployVars, createLog >>

\* ------------------------------------- S3SitesPlugin, after the upload
\* this.config.cloudFront.invalidationPaths || ['/*']
InvalidationPaths ==
  IF config.cloudFront[1].invalidationPaths = None THEN << "/*" >>
  ELSE config.cloudFront[1].invalidationPaths[1]

\* the arguments invalidateCloudFront passes to invalidate
InvalidateArgs(site, req) ==
  [distributionId |-> req.distributionId, paths |-> InvalidationPaths,
   site |-> site.name, region |-> req.region,
   waitForCompletion |-> config.cloudFront[1].waitForInvalidation,
   maxWaitTime |-> None]

\* deploySiteRemote returns from its try block
DeployRemoteReturns(invalidationId) ==
  /\ dresult' = DeploymentResult(uresult, invalidationId)
  /\ events' = Append(events,
       AfterSiteDeployEvent(dsite, TRUE, DeploymentResult(uresult, invalidationId)))
  /\ dpc' = "returned"

\* uploadSite has returned to deploySiteToS3: deploySiteLocal returns its
\* result; deploySiteRemote goes on to invalidateCloudFront
DeployUploadReturned ==
  /\ dpc = "upload"
  /\ upc = "done"
  /\ IF ~IsRemote(dsite)
     THEN /\ dresult' = DeploymentResult(uresult, Undefined)
          /\ dpc' = "returned"
          /\ UNCHANGED << events, invVars >>
     ELSE IF Truthy(dreq[1].distributionId) /\ ~dopts.dryRun
             /\ config.cloudFront # None
             /\ config.cloudFront[1].enableInvalidation
     THEN /\ EnterInvalidate(InvalidateArgs(dsite, dreq[1]))
          /\ dpc' = "invalidate"
          /\ UNCHANGED << dresult, createLog >>
     ELSE /\ DeployRemoteReturns(Undefined)
          /\ UNCHANGED invVars
  /\ UNCHANGED << envVars, enterVars, logVars, prev, config, dsite, dopts,
                  inspection, dreq, derror, describeLog >>

\* invalidate has returned to invalidateCloudFront
DeployInvalidationReturned ==
  /\ dpc = "invalidate"
  /\ ipc = "done"
  /\ DeployRemoteReturns(iresult.invalidationId)
  /\ UNCHANGED << envVars, enterVars, logVars, prev, config, dsite, dopts,
                  inspection, dreq, derror, describeLog, invVars >>

\* ---------------------------------------------------- specifications
UploadSteps ==
  \/ ScanFiles
  \/ PrepareFile
  \/ PrepareFails
  \/ StartUploads
  \/ UploadFile
  \/ UploadFails

\* one uploadSite invocation
Next ==
  \/ \E b \in Buckets, s \in Strategies, d \in BOOLEAN : UploadSiteCall(b, s, d)
  \/ UploadSteps

Spec == Init /\ [][Next]_vars

\* a deployment and a re-deployment of a small site, to a bucket that is
\* cold or already holds the site's index.html
RedeployDirs == {DirNested}
RedeployRemotes ==
  { r \in InitialRemotes :
      <<"b1", index_html>> \in DOMAIN r
        => r[<<"b1", index_html>>] = Some(S3ETagOf(BytesA)) }

InitRedeploy ==
  /\ Init
  /\ distKind = "dir"
  /\ sep = SlashCh
  /\ localFiles \in RedeployDirs
  /\ remote \in RedeployRemotes

NextRedeploy ==
  \/ \E b \in Buckets, s \in Strategies, d \in BOOLEAN : UploadSiteCall(b, s, d)
  \/ UploadSiteAgain
  \/ LocalEdit
  \/ UploadSteps

SpecRedeploy == InitRedeploy /\ [][NextRedeploy]_vars

\* one deploySite invocation on an initialised plugin, for a small site and
\* a bucket that is cold or holds the site's index.html
DeployDirs == {DirIndex}
CloudFronts ==
  { None, Some(CloudFront(FALSE, None, FALSE)),
    Some(CloudFront(TRUE, None, FALSE)) }
WaitingCloudFront == Some(CloudFront(TRUE, Some(<< "/index.html" >>), TRUE))
Configs ==
  { Config(r, s, cf) : r \in BOOLEAN, s \in {Undefined, "versioned"},
                       cf \in CloudFronts }
  \cup { Config(r, Undefined, WaitingCloudFront) : r \in BOOLEAN }
Sites ==
  { NoSite, Site(Undefined, "b2", Undefined), Site(Undefined, "b2", "E9"),
    Site("stack1", Undefined, Undefined), Site("stack1", "b2", "E9") }
DeployOptions == { [dryRun |-> d, region |-> Undefined] : d \in BOOLEAN }

InitDeploy ==
  /\ sep = SlashCh
  /\ distKind \in {"dir", "missing", "notdir"}
  /\ localFiles \in (IF distKind = "dir" THEN DeployDirs ELSE {<<>>})
  /\ remote \in RedeployRemotes
  /\ clock = 0
  /\ InitRun
  /\ \E cfg \in Configs : InitPlugin(cfg)

NextDeploy ==
  \/ \E site \in Sites, options \in DeployOptions : DeploySiteLocal(site, options)
  \/ \E site \in Sites, options \in DeployOptions : DeploySiteRemote(site, options)
  \/ InspectStackReturns
  \/ UploadSteps
  \/ DeployUploadReturned
  \/ InvalidateCreate
  \/ PollInvalidation
  \/ SleepDone
  \/ DeployInvalidationReturned

SpecDeploy == InitDeploy /\ [][NextDeploy]_vars


\* an uploadSite invocation during which other sites are deployed through
\* the same S3Uploader
Regions == {Undefined, "eu-west-1"}

NextConcurrent ==
  \/ \E b \in Buckets, s \in Strategies, d \in BOOLEAN, r \in Regions :
       UploadSiteInRegion(b, s, d, r)
  \/ \E r \in Regions : OtherUploadSiteCall(r)
  \/ UploadSteps

SpecConcurrent == InitRedeploy /\ [][NextConcurrent]_vars

\* one invalidate invocation, with and without a wait for completion
WaitTimes == {None, Some(0), Some(5), Some(20), Some(35)}

NextInvalidate ==
  \/ \E d \in {"E1"}, w \in BOOLEAN, t \in WaitTimes : InvalidateCall(d, w, t)
  \/ InvalidateCreate
  \/ PollInvalidation
  \/ SleepDone

InitInvalidate ==
  /\ Init
  /\ sep = SlashCh
  /\ distKind = "missing"

SpecInvalidate == InitInvalidate /\ [][NextInvalidate]_vars

\* one invalidate invocation that is asked to stop while it waits
NextCancel ==
  \/ NextInvalidate
  \/ AskStop

SpecCancel == InitInvalidate /\ [][NextCancel]_vars

\* two invalidate invocations, one after the other
NextInvalidateTwice ==
  \/ NextInvalidate
  \/ \E d \in {"E1"}, w \in BOOLEAN, t \in {None, Some(20)} : InvalidateAgain(d, w, t)

SpecInvalidateTwice == InitInvalidate /\ [][NextInvalidateTwice]_vars

\* one uploadSite invocation on a one-file site, for file names of every
\* supported extension, of unsupported ones and of none
MetadataFiles ==
  { << <<"a",".","h","t","m","l">> >>, << <<"a",".","c","s","s">> >>,
    << <<"a",".","j","s">> >>, << <<"a",".","j","s","o","n">> >>,
    << <<"a",".","p","n","g">> >>, << <<"a",".","j","p","g">> >>,
    << <<"a",".","j","p","e","g">> >>, << <<"a",".","g","i","f">> >>,
    << <<"a",".","s","v","g">> >>, << <<"a",".","i","c","o">> >>,
    << <<"a",".","w","o","f","f">> >>, << <<"a",".","w","o","f","f","2">> >>,
    << <<"a",".","t","t","f">> >>, << <<"a",".","e","o","t">> >>,
    << <<"a",".","x","m","l">> >>, << <<"a",".","t","x","t">> >>,
    << <<"a",".","p","d","f">> >>, << <<"a",".","z","i","p">> >>,
    << <<"a",".","m","p","4">> >>, << <<"a",".","w","e","b","m">> >>,
    << <<"a",".","m","p","3">> >>, << <<"a",".","w","a","v">> >>,
    << <<"R","E","A","D","M","E">> >>, << <<".","h","t","a","c","c","e","s","s">> >>,
    << <<"A","P","P",".","J","S">> >>, << <<"I","n","d","e","x",".","H","T","M","L">> >>,
    << <<"L","o","g","o",".","P","n","g">> >>, << <<"p","h","o","t","o",".","w","e","b","p">> >>,
    << <<"f","o","n","t",".","o","t","f">> >>, << <<"p","a","g","e",".","h","t","m">> >>,
    << <<"a",".","t","a","r",".","g","z">> >>, << <<"x",".","m","i","n",".","j","s">> >>,
    << <<"n","o","t","e","s",".">> >>, << <<"d","a","t","a",".","J","S","O","N">> >>,
    << <<"j","s">> >>, << <<"a",".","h","t","m","l",".","b","a","k">> >>,
    << <<"v","1",".","2">>, <<"R","E","A","D","M","E">> >>, << <<"a","s","s","e","t","s">>, <<"a","p","p",".","j","s">> >>,
    << <<"d","o","c","s",".","h","t","m","l">>, <<".","j","s">> >> }

InitMetadata ==
  /\ sep \in {SlashCh, BackslashCh}
  /\ distKind = "dir"
  /\ localFiles \in { << File(segs, BytesA) >> : segs \in MetadataFiles }
  /\ remote \in RedeployRemotes
  /\ clock = 0
  /\ InitRun
  /\ InitPlugin(DefaultConfig)

SpecMetadata == InitMetadata /\ [][Next]_vars

\* the upload loop of a site of many files, all of them flagged for upload
\* to an empty bucket: the state uploadSite is in when the loop starts
ManyFiles == 201

InitLarge ==
  /\ sep = SlashCh
  /\ distKind = "dir"
  /\ \E n \in {3, ManyFiles - 1, ManyFiles} :
       localFiles = [i \in 1..n |->
                      File(<< <<"f", ToString(i), ".", "j", "s">> >>, BytesA)]
  /\ remote \in RedeployRemotes
  /\ clock = 0
  /\ s3Client = InitializeS3Client(Undefined)
  /\ upc = "upload"
  /\ uargs = [bucketName |-> "b2", site |-> "site1", strategy |-> "direct",
              dryRun |-> FALSE, region |-> Undefined]
  /\ files = ScanResult
  /\ uploadInfo = [i \in 1..Len(files) |->
                    [file |-> files[i], s3Key |-> files[i],
                     size |-> Len(BytesA),
                     contentType |-> GetContentType(files[i]),
                     etag |-> MD5(BytesA),
                     needsUpload |-> FileNeedsUpload(HeadNotFound, MD5(BytesA))]]
  /\ filesToUpload = SelectSeq(uploadInfo, NeedsUploadOf)
  /\ uploadedFiles = 0
  /\ uresult = NoResult
  /\ events = << BeforeUploadEvent(uploadInfo) >>
  /\ dryRunLog = <<>>
  /\ headLog = [i \in 1..Len(files) |->
                 [bucket |-> "b2", key |-> files[i], resp |-> HeadNotFound,
                  client |-> s3Client]]
  /\ putLog = <<>>
  /\ raised = "none"
  /\ dirAtCall = [kind |-> distKind, listing |-> localFiles, remote |-> remote]
  /\ prev = NoPrev
  /\ InitPlugin(DefaultConfig)

NextLarge ==
  \/ UploadFile
  \/ UploadFails

SpecLarge == InitLarge /\ [][NextLarge]_vars

\* ------------------------------------------------------------ claims
RelativeKey(f) == Join(f.segs, SlashCh)
HeadFailed(h) == h.resp.kind = "error"

\* C1: fileNeedsUpload answers false only when the HEAD lookup succeeded and
\* the stored ETag, its quotes removed, equals the local hash; it answers
\* true when the object is absent, when the lookup fails otherwise, when the
\* hashes differ and when the answer carries no hash.
C1_FileNeedsUpload ==
  /\ Len(headLog) = Len(uploadInfo)
  /\ \A i \in 1..Len(uploadInfo) :
       LET info == uploadInfo[i]
           h == headLog[i]
           at == <<h.bucket, h.key>>
           stored == dirAtCall.remote
           bytes == dirAtCall.listing[i].content
       IN /\ h.key = info.s3Key
          /\ h.bucket = uargs.bucketName
          /\ info.needsUpload = FALSE <=>
               /\ h.resp.kind = "ok"
               /\ h.resp.ETag # None
               /\ StripQuotes(h.resp.ETag[1]) = info.etag
          /\ info.needsUpload = FALSE =>
               /\ at \in DOMAIN stored
               /\ stored[at] = Some(<<QuoteCh>> \o MD5(bytes) \o <<QuoteCh>>)
          /\ at \notin DOMAIN stored => info.needsUpload
          /\ h.resp.kind \in {"NotFound", "error"} => info.needsUpload
          /\ (h.resp.kind = "ok" /\ h.resp.ETag = None) => info.needsUpload

\* a run that met a matching hash, a failed lookup and an absent object
C1_Witness ==
  /\ Len(uploadInfo) = 3
  /\ ~uploadInfo[1].needsUpload
  /\ headLog[2].resp.kind = "error"
  /\ headLog[3].resp.kind = "NotFound"
  /\ uploadInfo[2].needsUpload /\ uploadInfo[3].needsUpload

\* an answer without a hash
C1_WitnessNoHash ==
  /\ Len(uploadInfo) >= 1
  /\ headLog[1].resp = HeadOk(None)
  /\ uploadInfo[1].needsUpload

\* C2: cold deployment. A non-dry-run uploadSite with the Direct strategy to
\* a bucket holding none of the keys, in which nothing raised, PUTs every
\* scanned file exactly once under its forward-slash relative path and
\* returns success with uploadedFiles = the number of scanned files.
ColdBucket ==
  \A i \in 1..Len(dirAtCall.listing) :
    <<uargs.bucketName, RelativeKey(dirAtCall.listing[i])>>
      \notin DOMAIN dirAtCall.remote

C2_ColdDeployment ==
  ( /\ upc = "done"
    /\ uargs.strategy = "direct"
    /\ ~uargs.dryRun
    /\ raised = "none"
    /\ ColdBucket )
  => LET listing == dirAtCall.listing
     IN /\ Len(putLog) = Len(listing)
        /\ \A i \in 1..Len(listing) :
             /\ putLog[i].bucket = uargs.bucketName
             /\ putLog[i].key = RelativeKey(listing[i])
             /\ putLog[i].body = listing[i].content
             /\ putLog[i].ok
        /\ \A i, j \in 1..Len(putLog) : putLog[i].key = putLog[j].key => i = j
        /\ uresult.success
        /\ uresult.uploadedFiles = Len(listing)
        /\ (listing = DirSite => uresult.uploadedFiles = 3)

C2_Witness ==
  /\ upc = "done" /\ uargs.strategy = "direct" /\ ~uargs.dryRun
  /\ raised = "none" /\ ColdBucket
  /\ dirAtCall.listing = DirSite
  /\ uresult.uploadedFiles = 3
  /\ KeysOf(filesToUpload) = <<index_html, app_js, logo_png>>

C2_WitnessNested ==
  /\ upc = "done" /\ uargs.strategy = "direct" /\ ~uargs.dryRun
  /\ raised = "none" /\ ColdBucket
  /\ sep = BackslashCh
  /\ dirAtCall.listing = DirNested
  /\ uresult.uploadedFiles = 2


\* the second run of a re-deployment whose first run succeeded, not as a dry
\* run, and whose directory has not changed since
SecondRunOfUnchangedSite ==
  /\ prev.valid
  /\ prev.result.success
  /\ ~prev.args.dryRun
  /\ prev.args = uargs
  /\ dirAtCall.kind = prev.disk.kind
  /\ dirAtCall.listing = prev.disk.listing

\* C3 as claimed: after a successful non-dry-run uploadSite, a second
\* uploadSite of the unchanged directory to the same bucket with the same
\* options issues no PUT and returns uploadedFiles = 0.
C3_Original ==
  SecondRunOfUnchangedSite
  => /\ putLog = <<>>
     /\ upc = "done" => uresult.uploadedFiles = 0

\* C3 amended: the same, under the Direct strategy and when every HEAD lookup
\* of the second run is answered.
C3_NoOpRedeploy ==
  ( /\ SecondRunOfUnchangedSite
    /\ uargs.strategy = "direct"
    /\ \A i \in 1..Len(headLog) : ~HeadFailed(headLog[i]) )
  => /\ putLog = <<>>
     /\ \A i \in 1..Len(uploadInfo) : ~uploadInfo[i].needsUpload
     /\ upc = "done" => uresult.uploadedFiles = 0

\* the second run found both files, written by the first run, up to date
C3_Witness ==
  /\ SecondRunOfUnchangedSite
  /\ uargs.strategy = "direct"
  /\ prev.result.uploadedFiles = 2
  /\ upc = "done"
  /\ Len(headLog) = 2
  /\ \A i \in 1..Len(headLog) : headLog[i].resp.kind = "ok"
  /\ uresult.success /\ uresult.uploadedFiles = 0

\* C4: a dry run issues no PUT whatever change detection found, leaves the
\* remote objects as they were, and returns uploadedFiles = 0, with
\* success = true when nothing raised (a run that raised returns C7's result).
C4_DryRun ==
  uargs.dryRun
  => /\ putLog = <<>>
     /\ remote = dirAtCall.remote
     /\ upc = "done" => uresult.uploadedFiles = 0
     /\ (upc = "done" /\ raised = "none")
          => /\ uresult.success
             /\ dryRunLog = KeysOf(SelectSeq(uploadInfo, NeedsUploadOf))

\* a dry run that found files to upload and reported them
C4_Witness ==
  /\ uargs.dryRun
  /\ upc = "done"
  /\ uresult.success
  /\ Len(dryRunLog) = 3
  /\ Len(filesToUpload) = 3

VersionPrefix(info) ==
  SubSeq(info.s3Key, 1, Len(info.s3Key) - Len(info.file) - 1)

\* C5: under the Versioned strategy every key of one run carries the same
\* version token, generated once for the run.
C5_SingleVersionToken ==
  uargs.strategy = "versioned"
  => \A i, j \in 1..Len(uploadInfo) :
       VersionPrefix(uploadInfo[i]) = VersionPrefix(uploadInfo[j])

\* C6: if the PUT of the k-th flagged file fails, no PUT follows it in that
\* run, and the objects written before it stay in the bucket; nothing is
\* deleted.
C6_AbortKeepsUploaded ==
  /\ \A i \in 1..Len(putLog) :
       /\ i < Len(putLog) => putLog[i].ok
       /\ putLog[i].key = filesToUpload[i].s3Key
       /\ putLog[i].ok =>
            /\ <<putLog[i].bucket, putLog[i].key>> \in DOMAIN remote
            /\ remote[<<putLog[i].bucket, putLog[i].key>>]
                 = Some(S3ETagOf(putLog[i].body))
  /\ DOMAIN dirAtCall.remote \subseteq DOMAIN remote
  /\ (Len(putLog) > 0 /\ ~putLog[Len(putLog)].ok)
       => /\ upc = "done"
          /\ uploadedFiles = Len(putLog) - 1

\* the PUT of the third file failed after two objects were written
C6_Witness ==
  /\ upc = "done"
  /\ Len(putLog) = 3
  /\ ~putLog[3].ok
  /\ Len(filesToUpload) = 3
  /\ raised = "upload"
  /\ \A i \in 1..2 : <<putLog[i].bucket, putLog[i].key>> \in DOMAIN remote

\* C7: when preparation or a PUT raises, uploadSite returns (it does not
\* throw) success = false, uploadedFiles = 0, totalSize = 0 and the error
\* message, however many files were written before.
C7_FailureResult ==
  raised # "none"
  => /\ upc = "done"
     /\ uresult.success = FALSE
     /\ uresult.uploadedFiles = 0
     /\ uresult.totalSize = 0
     /\ uresult.error \in {"EIO", "PutFailed"}

\* a PUT raised after two files had been written
C7_Witness ==
  /\ raised = "upload"
  /\ uploadedFiles = 2
  /\ uresult.success = FALSE
  /\ uresult.uploadedFiles = 0

\* C8: uploadSite on a distPath that does not exist or is no directory
\* fails with DistDirectoryNotFound, before any HEAD or PUT.
C8_DistDirectoryNotFound ==
  (upc = "done" /\ dirAtCall.kind # "dir")
  => /\ uresult.success = FALSE
     /\ uresult.error = "DistDirectoryNotFound"
     /\ headLog = <<>>
     /\ putLog = <<>>

\* C9: in a remote-resolved deployment, whenever the inspected stack is not
\* ready for deployment, whatever its outputs, deploySite fails with the
\* StackNotReady error and no HEAD, PUT or invalidation request is made.
C9_StackNotReady ==
  ( /\ IsRemote(dsite)
    /\ inspection.success
    /\ ~inspection.requirements.readyForDeployment )
  => /\ dpc = "thrown"
     /\ derror = "StackNotReady"
     /\ headLog = <<>>
     /\ putLog = <<>>
     /\ createLog = <<>>

\* the first name of an ordered list that is a key of the outputs
PresentAt(outs, names) == { i \in 1..Len(names) : names[i] \in DOMAIN outs }
FirstPresent(outs, names) ==
  LET first == CHOOSE i \in PresentAt(outs, names) :
                 \A j \in PresentAt(outs, names) : i <= j
  IN outs[names[first]]

\* C10: after a successful inspection the bucket is the value of the first
\* of BucketName, S3BucketName, WebsiteBucket, StaticSiteBucket, Bucket that
\* the outputs hold, and resolution fails with BucketOutputNotFound when they
\* hold none; the distribution is the value of the first of DistributionId,
\* CloudFrontDistributionId, CDNDistributionId, Distribution they hold, and
\* is absent, without error, when they hold none.
C10_TargetResolution ==
  inspection.success
  => LET outs == inspection.requirements.outputs
         bucketNames == <<"BucketName", "S3BucketName", "WebsiteBucket",
                          "StaticSiteBucket", "Bucket">>
         distNames == <<"DistributionId", "CloudFrontDistributionId",
                        "CDNDistributionId", "Distribution">>
     IN IF PresentAt(outs, bucketNames) = {}
        THEN /\ dpc = "thrown"
             /\ derror = "BucketOutputNotFound"
             /\ dreq = None
        ELSE /\ dreq # None
             /\ derror # "BucketOutputNotFound"
             /\ dreq[1].bucketName = FirstPresent(outs, bucketNames)
             /\ dreq[1].distributionId =
                  ( IF PresentAt(outs, distNames) = {} THEN Undefined
                    ELSE FirstPresent(outs, distNames) )
             /\ dpc \in {"upload", "invalidate", "returned"}
                  => uargs.bucketName = FirstPresent(outs, bucketNames)
             /\ \A i \in 1..Len(createLog) :
                  /\ PresentAt(outs, distNames) # {}
                  /\ createLog[i].distributionId = FirstPresent(outs, distNames)
             /\ outs = ("WebsiteBucket" :> "b1") @@ ("DistributionId" :> "E1")
                  => /\ dreq[1].bucketName = "b1"
                     /\ dreq[1].distributionId = "E1"

\* outputs {WebsiteBucket: b1, DistributionId: E1} were resolved, the site
\* was uploaded to b1 and E1 was invalidated
C10_Witness ==
  /\ inspection.success
  /\ inspection.requirements.outputs
       = ("WebsiteBucket" :> "b1") @@ ("DistributionId" :> "E1")
  /\ dreq # None
  /\ dreq[1].bucketName = "b1"
  /\ dreq[1].distributionId = "E1"
  /\ dpc = "returned"
  /\ Len(putLog) > 0
  /\ putLog[1].bucket = "b1"
  /\ Len(createLog) = 1
  /\ createLog[1].distributionId = "E1"

\* resolution failed for outputs that hold a distribution but no bucket
C10_WitnessNoBucket ==
  /\ inspection.success
  /\ inspection.requirements.outputs = ("DistributionId" :> "E1")
  /\ dpc = "thrown"
  /\ derror = "BucketOutputNotFound"

\* the errors deploySite throws while it resolves its target
ResolutionErrors ==
  {"BucketNotConfigured", "DistDirectoryNotFound", "StackInspectionFailed",
   "StackNotReady", "BucketOutputNotFound"}
SiteIsRemote == config.enableRemoteDeployment /\ dsite.stackName # Undefined

\* C11: when deploySite fails while resolving its target the error is thrown
\* to the caller and no HEAD, PUT or invalidation request has been sent; the
\* stack is inspected only when remote deployment is enabled and the site
\* names a stack, and otherwise a site without bucketName fails with
\* BucketNotConfigured; a missing distribution directory and a failed
\* inspection fail with their errors.
C11_ResolutionFailure ==
  /\ dpc = "thrown"
       => /\ derror \in ResolutionErrors
          /\ upc = "idle"
          /\ headLog = <<>> /\ putLog = <<>> /\ createLog = <<>>
  /\ describeLog # <<>> => SiteIsRemote
  /\ (dpc # "idle" /\ ~SiteIsRemote)
       => /\ describeLog = <<>>
          /\ dsite.bucketName = Undefined
               => dpc = "thrown" /\ derror = "BucketNotConfigured"
          /\ (dsite.bucketName # Undefined /\ distKind = "missing")
               => dpc = "thrown" /\ derror = "DistDirectoryNotFound"
  /\ (dpc \notin {"idle", "inspect"} /\ SiteIsRemote)
       => /\ ~inspection.success
               => dpc = "thrown" /\ derror = "StackInspectionFailed"
          /\ (inspection.success /\ ~inspection.requirements.readyForDeployment)
               => dpc = "thrown"
          /\ ( /\ inspection.success
               /\ inspection.requirements.readyForDeployment
               /\ dreq # None
               /\ distKind = "missing" )
               => dpc = "thrown" /\ derror = "DistDirectoryNotFound"

\* remote deployment is enabled, the site names no stack and no bucket
C11_Witness ==
  /\ dpc = "thrown"
  /\ derror = "BucketNotConfigured"
  /\ config.enableRemoteDeployment
  /\ dsite = NoSite
  /\ describeLog = <<>>

\* the distribution directory is missing after the stack was resolved
C11_WitnessMissingDir ==
  /\ dpc = "thrown"
  /\ derror = "DistDirectoryNotFound"
  /\ dreq # None
  /\ Len(describeLog) = 1
  /\ headLog = <<>>

\* C12: when uploadSite returns a failure during deploySite, the deployment
\* returns that failure and no CreateInvalidation request is sent, also when
\* a distribution is resolved, invalidation is enabled and the run is no
\* dry run.
C12_FailedUploadNoInvalidation ==
  (dpc \in {"invalidate", "returned"} /\ upc = "done" /\ ~uresult.success)
  => /\ createLog = <<>>
     /\ dpc = "returned"
          => /\ ~dresult.success
             /\ dresult.error = uresult.error

\* C13: in every deploySite whose upload succeeded, with the target given
\* directly or resolved from a stack, a CreateInvalidation request is sent
\* exactly when the distribution is known, cloudFront.enableInvalidation is
\* set and the run is no dry run; it is sent once, after the upload, with the
\* configured paths (/* by default), and its id is in the returned result.
C13_InvalidationIffConfigured ==
  /\ createLog # <<>> => upc = "done"
  /\ (dpc = "returned" /\ uresult.success)
       => LET due == /\ dreq[1].distributionId # Undefined
                     /\ config.cloudFront # None
                     /\ config.cloudFront[1].enableInvalidation
                     /\ ~dopts.dryRun
          IN /\ Len(createLog) = (IF due THEN 1 ELSE 0)
             /\ \A i \in 1..Len(createLog) :
                  /\ createLog[i].distributionId = dreq[1].distributionId
                  /\ createLog[i].paths =
                       ( IF config.cloudFront[1].invalidationPaths = None
                         THEN << "/*" >>
                         ELSE config.cloudFront[1].invalidationPaths[1] )
                  /\ dresult.invalidationId = iresult.invalidationId

\* C14: a failure of invalidate during deploySite leaves the verdict alone:
\* deploySite does not throw, its result keeps the upload's success,
\* uploadedFiles, totalSize and error, and the merged invalidationId is empty.
C14_InvalidationFailureKeepsVerdict ==
  /\ createLog # <<>> => dpc # "thrown" /\ derror = Undefined
  /\ (dpc = "returned" /\ createLog # <<>> /\ ~iresult.success)
       => /\ dresult.success = uresult.success
          /\ dresult.uploadedFiles = uresult.uploadedFiles
          /\ dresult.totalSize = uresult.totalSize
          /\ dresult.error = uresult.error
          /\ dresult.invalidationId = ""

\* the upload wrote the site, the invalidation could not be created
C14_Witness ==
  /\ dpc = "returned"
  /\ Len(createLog) = 1
  /\ ~iresult.success
  /\ uresult.success
  /\ uresult.uploadedFiles = 1
  /\ dresult.success
  /\ dresult.invalidationId = ""

\* the wait budget in polls: floor(maxWaitTime / 10), 300 when not supplied
PollBudget ==
  (IF iargs.maxWaitTime = None THEN 300 ELSE iargs.maxWaitTime[1]) \div 10
LastPoll == IF recentPolls = <<>> THEN "none" ELSE recentPolls[Len(recentPolls)]
Created == createdId # Undefined

\* C15: when the CreateInvalidation request errors or answers without an id,
\* invalidate returns (it does not throw) success = false, an empty
\* invalidationId and the error message, and sends no status poll.
C15_CreateFailure ==
  \A i \in 1..Len(createLog) :
    createLog[i].answer \in {"", "error"}
    => /\ ipc = "done"
       /\ iresult.success = FALSE
       /\ iresult.invalidationId = ""
       /\ iresult.error \in {"CreateFailed", "no ID returned"}
       /\ polls = 0
       /\ events[Len(events)].type = "after:invalidation"
       /\ events[Len(events)].success = FALSE

\* the answer carried no id although a wait for completion was asked for
C15_Witness ==
  /\ Len(createLog) = 1
  /\ createLog[1].answer = ""
  /\ iargs.waitForCompletion
  /\ ipc = "done"
  /\ iresult.error = "no ID returned"
  /\ polls = 0

\* C16: with waitForCompletion, for every supplied maxWaitTime >= 0 (300 when
\* none is supplied) at most floor(maxWaitTime / 10) polls are sent, and when
\* no poll answered Completed the result is InProgress with success = true
\* and the created id (for maxWaitTime = 5 as well).
C16_WaitBudget ==
  (iargs.waitForCompletion /\ Created)
  => /\ polls <= PollBudget
     /\ (ipc = "done" /\ LastPoll # "Completed")
          => /\ iresult.status = "InProgress"
             /\ iresult.success
             /\ iresult.invalidationId = createdId
     /\ (ipc = "done" /\ iargs.maxWaitTime = Some(5))
          => /\ iresult.status = "InProgress"
             /\ iresult.success
             /\ polls = 0

\* C17: with waitForCompletion, the poll that answers Completed ends
\* invalidate with status Completed and success = true, it is reached
\* whenever it lies within floor(maxWaitTime / 10) polls, and no poll is sent
\* after invalidate has returned (maxWaitTime = 20 and answers InProgress,
\* Completed: Completed after exactly two polls).
C17_CompletedAtK ==
  /\ [](LastPoll = "Completed"
         => /\ ipc = "done"
            /\ iresult.status = "Completed"
            /\ iresult.success
            /\ iresult.invalidationId = createdId
            /\ polls = check + 1)
  /\ []((iargs.waitForCompletion /\ Created /\ ipc = "done"
           /\ LastPoll # "Completed")
         => polls >= PollBudget)
  /\ []((iargs.maxWaitTime = Some(20)
           /\ recentPolls = << "InProgress", "Completed" >>)
         => polls = 2 /\ iresult.status = "Completed")
  /\ [](iresult.status = "Completed" => LastPoll = "Completed")
  /\ [][ipc = "done" => polls' = polls]_vars

\* maxWaitTime = 20, the second poll answered Completed
C17_Witness ==
  /\ iargs.waitForCompletion
  /\ iargs.maxWaitTime = Some(20)
  /\ recentPolls = << "InProgress", "Completed" >>
  /\ polls = 2
  /\ ipc = "done"
  /\ iresult.status = "Completed"

\* C18: a poll that raises does not abort invalidate: polling goes on while
\* budget remains, a later Completed still gives status Completed, and the
\* result has success = true with the created id.
C18_PollErrorContinues ==
  /\ LastPoll = "error"
       => /\ ipc \in {"poll", "done"}
          /\ ipc = "done"
               => /\ polls >= PollBudget
                  /\ iresult.status = "InProgress"
  /\ (Created /\ ipc = "done")
       => /\ iresult.success
          /\ iresult.invalidationId = createdId
  /\ recentPolls = << "error", "Completed" >>
       => ipc = "done" /\ iresult.status = "Completed"

\* a poll raised and the next one answered Completed
C18_Witness ==
  /\ recentPolls = << "error", "Completed" >>
  /\ polls = 2
  /\ ipc = "done"
  /\ iresult.status = "Completed"
  /\ iresult.success
  /\ iresult.invalidationId = "I1"

\* the region of the client an uploadSite invocation asked for
OwnRegion == IF uargs.region = Undefined THEN "us-east-1" ELSE uargs.region

\* C19: deployments of different sites that run concurrently on one plugin
\* instance do not interfere: every HEAD and PUT of a deployment goes through
\* a client configured with that deployment's own region.
C19_OwnClient ==
  /\ \A i \in 1..Len(headLog) : headLog[i].client = OwnRegion
  /\ \A i \in 1..Len(putLog) : putLog[i].client = OwnRegion

C21_VersionedRunsDisjoint ==
  (prev.valid /\ prev.args.strategy = "versioned" /\ uargs.strategy = "versioned")
  => /\ \A i \in 1..Len(uploadInfo) :
          <<uargs.bucketName, uploadInfo[i].s3Key>> \notin DOMAIN dirAtCall.remote
     /\ (upc = "done" /\ uresult.success /\ prev.result.success)
          => uresult.version # prev.result.version

\* C22: an invalidate call sends at most one create request, and the caller
\* reference of every create request differs from that of every other one.
C22_CallerReferenceUnique ==
  /\ \A i \in 1..Len(createLog) : \A j \in 1..Len(createLog) :
       i # j => createLog[i].callerReference # createLog[j].callerReference
  /\ Len(createLog) <= Len(SelectSeq(events, LAMBDA e : e.type = "before:invalidation"))

\* a path has the extension ext (dot included), whatever the case of its
\* letters: it ends with ext and ext is preceded by a character of the name
HasExtension(path, ext) ==
  /\ Len(path) > Len(ext)
  /\ ToLowerCase(SubSeq(path, Len(path) - Len(ext) + 1, Len(path))) = ext
  /\ path[Len(path) - Len(ext)] \notin {SlashCh, BackslashCh}

\* the extensions of scripts, style sheets, images and fonts
LongLivedExtensions ==
  { <<".","j","s">>, <<".","c","s","s">>,
    <<".","p","n","g">>, <<".","j","p","g">>, <<".","j","p","e","g">>,
    <<".","g","i","f">>, <<".","s","v","g">>, <<".","i","c","o">>,
    <<".","w","o","f","f">>, <<".","w","o","f","f","2">>,
    <<".","t","t","f">>, <<".","e","o","t">> }

\* the cache tier of a path by its extension
CacheTier(path) ==
  IF \E e \in LongLivedExtensions : HasExtension(path, e)
  THEN "public, max-age=31536000, immutable"
  ELSE IF HasExtension(path, <<".","h","t","m","l">>)
  THEN "public, max-age=3600, must-revalidate"
  ELSE "public, max-age=86400"

TableType(file) ==
  IF \E e \in ContentTypes : HasExtension(file, e[1])
  THEN (CHOOSE e \in ContentTypes : HasExtension(file, e[1]))[2]
  ELSE "application/octet-stream"

\* C24: the content type and the cache control of a file are functions of
\* its name alone: the table entry of its extension, or
\* application/octet-stream when the extension is not in the table or
\* missing, and the same values under the direct and the versioned strategy.
C24_MetadataByFileName ==
  /\ \A i \in 1..Len(uploadInfo) :
       uploadInfo[i].contentType = TableType(uploadInfo[i].file)
  /\ \A i \in 1..Len(putLog) :
       /\ putLog[i].contentType = TableType(filesToUpload[i].file)
       /\ putLog[i].cacheControl = CacheTier(filesToUpload[i].file)

C24_Witness ==
  /\ uargs.strategy = "versioned"
  /\ Len(putLog) = 1
  /\ putLog[1].ok
  /\ HasExtension(filesToUpload[1].file, <<".","w","e","b","p">>)
  /\ putLog[1].contentType = "application/octet-stream"
  /\ putLog[1].cacheControl = "public, max-age=86400"

\* the bytes of the files of a directory listing
RECURSIVE ListingSize(_)
ListingSize(listing) ==
  IF Len(listing) = 0 THEN 0
  ELSE Len(listing[1].content) + ListingSize(Tail(listing))

\* C25: a successful uploadSite, dry run or not, reports as totalSize the
\* sum of the sizes of all scanned files, uploaded or skipped; in a run that
\* is no dry run uploadedFiles plus the skipped files is the number of
\* scanned files.
C25_TotalSize ==
  (upc = "done" /\ uresult.success)
  => /\ uresult.totalSize = ListingSize(dirAtCall.listing)
     /\ ~uargs.dryRun
          => uresult.uploadedFiles + events[Len(events)].skippedFiles
               = Len(dirAtCall.listing)

C25_Witness ==
  /\ upc = "done"
  /\ uresult.success
  /\ ~uargs.dryRun
  /\ uresult.uploadedFiles = 2
  /\ events[Len(events)].skippedFiles = 1
  /\ uresult.totalSize = 4

\* the 'uploading' progress events published so far
UploadingEvents ==
  SelectSeq(events, LAMBDA e : e.type = "progress" /\ e.stage = "uploading")

\* PUT requests that succeeded
PutsDone == SelectSeq(putLog, LAMBDA r : r.ok)

\* p is k/n as a percentage rounded to the nearest integer, halves upwards
IsPercentOf(p, k, n) == 2 * n * p - n <= 200 * k /\ 200 * k < 2 * n * p + n

\* what C26 says of the progress events, with lo the least percentage
UploadProgress(lo) ==
  (upc \in {"upload", "done"} /\ ~uargs.dryRun)
  => LET ps == UploadingEvents
         n == Len(filesToUpload)
     IN /\ Len(ps) = Len(PutsDone)
        /\ \A k \in 1..Len(ps) :
             /\ IsPercentOf(ps[k].progress, k, n)
             /\ ps[k].progress \in lo..100
             /\ k > 1 => ps[k - 1].progress <= ps[k].progress
        /\ (upc = "done" /\ uresult.success /\ n > 0)
             => ps[Len(ps)].progress = 100

BudgetSeconds ==
  IF iargs.maxWaitTime = None \/ iargs.maxWaitTime[1] = 0 THEN 300
  ELSE iargs.maxWaitTime[1]

\* C27: a status poll that reports a status other than Completed publishes
\* one 'invalidating' progress event whose progress is elapsed / maxWaitTime
\* as a percentage (to the nearest integer), elapsed being 10 seconds per
\* earlier poll, also when maxWaitTime is no multiple of 10.
C27_InvalidationProgress ==
  (ipc = "sleep" /\ LastPoll = "InProgress")
  => /\ pollEvent # None
     /\ pollEvent[1].stage = "invalidating"
     /\ IsPercentOf(pollEvent[1].progress, (polls - 1) * 10, BudgetSeconds)

\* C28: between two consecutive status polls of an invalidate call exactly
\* one 10-second wait takes place, whether the earlier poll reported a
\* status that is not Completed or its request failed.
C28_PollSpacing ==
  (ipc = "poll" /\ polls >= 1) => sleeps = 1

\* the events of one type published so far
EventsOfType(t) == SelectSeq(events, LAMBDA e : e.type = t)

\* C29: every deploySite invocation, direct or resolved from a stack,
\* successful or failed, publishes exactly one before:site-deploy event and
\* later exactly one after:site-deploy event, and all its upload and
\* invalidation events lie between the two.
C29_SiteDeployEvents ==
  dpc \in {"returned", "thrown"}
  => /\ Len(EventsOfType("before:site-deploy")) = 1
     /\ Len(EventsOfType("after:site-deploy")) = 1
     /\ events[1].type = "before:site-deploy"
     /\ events[Len(events)].type = "after:site-deploy"

\* C30: every before:upload event is followed by exactly one after:upload
\* event of the same uploadSite call, on success and on failure, and every
\* before:invalidation event by exactly one after:invalidation event of the
\* same invalidate call.
C30_AfterFollowsBefore ==
  /\ upc = "done"
       => Len(EventsOfType("after:upload")) = Len(EventsOfType("before:upload"))
  /\ ipc = "done"
       => Len(EventsOfType("after:invalidation"))
            = Len(EventsOfType("before:invalidation"))

\* C31: the after:site-deploy event agrees with the outcome: it carries
\* success = true only if the result returned to the caller and carried in
\* the event has success = true, and success = false exactly when deploySite
\* raises.
C31_SiteDeployVerdict ==
  \A i \in 1..Len(events) :
    events[i].type = "after:site-deploy"
    => /\ events[i].success
            => events[i].result.success /\ dresult.success
       /\ ~events[i].success <=> dpc = "thrown"

\* C32: under the Versioned strategy the version of a successful result is
\* the token that prefixes the keys written in that run: every object of the
\* run has the key <result.version>/<relative path>.
C32_ResultVersionIsPrefix ==
  (upc = "done" /\ uresult.success /\ uargs.strategy = "versioned")
  => /\ uresult.version # None
     /\ \A i \in 1..Len(putLog) :
          putLog[i].key = uresult.version[1] \o <<SlashCh>>
                            \o NormalizeSeparators(filesToUpload[i].file)

\* C33: within one uploadSite run the HEAD lookup of every scanned file is
\* over before the first PUT is sent and before before:upload is published;
\* so a run whose preparation fails on reading or hashing a file ends with
\* no PUT at all.
C33_PrepareBeforeUpload ==
  /\ (putLog # <<>> \/ EventsOfType("before:upload") # <<>>)
       => /\ Len(headLog) = Len(dirAtCall.listing)
          /\ \A i \in 1..Len(headLog) :
               headLog[i].key = NormalizeSeparators(Join(dirAtCall.listing[i].segs, sep))
               \/ uargs.strategy = "versioned"
  /\ raised = "prepare"
       => putLog = <<>> /\ EventsOfType("before:upload") = <<>>

C33_Witness ==
  /\ upc = "done"
  /\ raised = "prepare"
  /\ Len(headLog) = 2
  /\ Len(dirAtCall.listing) = 3
  /\ uploadInfo[1].needsUpload
  /\ putLog = <<>>

\* C34: when waitForCompletion is not requested, invalidate sends no status
\* poll and waits for nothing after a successful create; it returns status
\* InProgress with success = true and the id of the created invalidation.
C34_NoWaitRequested ==
  (ipc \notin {"idle", "create"} /\ ~iargs.waitForCompletion
     /\ Truthy(createLog[Len(createLog)].answer)
     /\ createLog[Len(createLog)].answer # "error")
  => /\ ipc = "done"
     /\ polls = 0
     /\ sleeps = 0
     /\ pollEvent = None
     /\ iresult = [invalidationId |-> createLog[Len(createLog)].answer,
                    status |-> "InProgress", success |-> TRUE,
                    error |-> Undefined]

C34_Witness ==
  /\ ipc = "done"
  /\ ~iargs.waitForCompletion
  /\ iargs.maxWaitTime = Some(20)
  /\ Len(createLog) = 1
  /\ createLog[1].answer = "I1"
  /\ iresult.invalidationId = "I1"
  /\ polls = 0

\* C35: the wait loop of invalidate honours a request to stop: once the
\* surrounding process has asked, no further status poll and no further wait
\* is started.
C35_StopHonoured ==
  [][stopAsked => /\ polls' = polls
                  /\ ~(ipc = "poll" /\ ipc' = "sleep")]_vars

\* the result of the stack inspection of this deploySite, once it is there
Inspected == describeLog # <<>> /\ dpc # "inspect"

\* the error text mentions the phrase
Mentions(text, phrase) == \E i \in 1..Len(text) : text[i] = phrase

\* the first recommendation that belongs to an error text
FirstAdvice(text) ==
  IF Mentions(text, "not found or not accessible")
  THEN "Verify the stack name is correct"
  ELSE IF Mentions(text, "AccessDenied") \/ Mentions(text, "UnauthorizedOperation")
  THEN "Check that your AWS credentials have CloudFormation:DescribeStacks permission"
  ELSE IF Mentions(text, "ValidationError")
  THEN "Verify the stack name is correct and exists"
  ELSE IF Mentions(text, "does not exist")
  THEN "Create the stack first using CDK or CloudFormation"
  ELSE "Check your internet connection"

\* C36: inspectStack returns a result for every outcome of the describe
\* call; a result with success = false carries an error and a non-empty list
\* of recommendations chosen by the category of the error; a result with
\* success = true has readyForDeployment = true exactly when the stack status
\* is CREATE_COMPLETE or UPDATE_COMPLETE.
C36_InspectionResult ==
  Inspected
  => /\ inspection # NoInspection
     /\ ~inspection.success
          => /\ inspection.error # <<>>
             /\ Len(inspection.recommendations) = 3
             /\ inspection.recommendations[1] = FirstAdvice(inspection.error)
     /\ inspection.success
          => (inspection.requirements.readyForDeployment
                <=> inspection.requirements.status
                      \in {"CREATE_COMPLETE", "UPDATE_COMPLETE"})

C36_Witness ==
  /\ Inspected
  /\ ~inspection.success
  /\ Mentions(inspection.error, "AccessDenied")
  /\ inspection.recommendations[2] = "Verify the correct AWS profile is being used"
  /\ dpc = "thrown"

C36_WitnessNotReady ==
  /\ Inspected
  /\ inspection.success
  /\ inspection.requirements.status = "ROLLBACK_COMPLETE"
  /\ ~inspection.requirements.readyForDeployment

====
